---- MODULE Spec2Model ----
(***************************************************************************)
(* Event detection and dispatch engine of example_5:                       *)
(*   EventClassifier      (event_classifier.py)                            *)
(*   dispatch_ship_events (ship_dispatcher.py)                             *)
(*                                                                         *)
(* A telemetry table (pandas DataFrame with the default RangeIndex) is a   *)
(* function from column names to columns; a column is a record             *)
(* [dtype, data] whose data is a sequence of integers (booleans are 1/0    *)
(* under dtype "bool", a missing float is NaN).  An event frame is a       *)
(* record [columns, rows]: the ordered column labels and the rows, each    *)
(* row a function from column label to cell.  A formatted string is the    *)
(* sequence of its pieces.                                                 *)
(***************************************************************************)
EXTENDS Integers, Sequences, FiniteSets, TLC

VARIABLES df, config, wd, pc, i, frames, diags, log, call, ret

vars == <<df, config, wd, pc, i, frames, diags, log, call, ret>>

-----------------------------------------------------------------------------
(* Bounds of the model                                                     *)

MaxRows == 3

MaxRules == 2

MaxSamples == 3

-----------------------------------------------------------------------------
(* Cells, columns and frames                                               *)

NaN == -1

TimeCol == "time.absolute"

Range(s) == {s[k] : k \in 1..Len(s)}

Float(v) == [kind |-> IF v = NaN THEN "nan" ELSE "float", num |-> v]

CellOf(col, k) == [kind |-> IF col.data[k] = NaN THEN "nan" ELSE col.dtype, num |-> col.data[k]]

NRows(t) == Len(t[TimeCol].data)

EventColumns == <<"timestamp", "activity", "value">>

EmptyEvents == [columns |-> EventColumns, rows |-> <<>>]

Returned(events) == [exc |-> "None", events |-> events]

Raised(e) == [exc |-> e, events |-> EmptyEvents]

(* rows of mask, ascending: self.df[mask].index *)
RECURSIVE IndicesFrom(_, _)
IndicesFrom(mask, k) ==
    IF k > Len(mask) THEN <<>>
    ELSE (IF mask[k] THEN <<k>> ELSE <<>>) \o IndicesFrom(mask, k + 1)

EventIndices(mask) == IndicesFrom(mask, 1)

(* Series.shift(periods, fill_value) on a boolean mask *)
Shift(mask, periods, fill) ==
    [k \in 1..Len(mask) |->
        IF k - periods >= 1 /\ k - periods <= Len(mask) THEN mask[k - periods] ELSE fill]

(* Series.shift(1) on a data column: the first sample has no predecessor *)
PrevValues(data) == [k \in 1..Len(data) |-> IF k = 1 THEN NaN ELSE data[k - 1]]

-----------------------------------------------------------------------------
(* EventClassifier                                                         *)

Comparators == {">", "<", ">=", "<=", "=="}

Compare(op, v, t) ==
    /\ v # NaN
    /\ t # NaN
    /\ CASE op = ">"  -> v > t
         [] op = "<"  -> v < t
         [] op = ">=" -> v >= t
         [] op = "<=" -> v <= t
         [] op = "==" -> v = t

MaskOf(col, op, t) == [k \in 1..Len(col.data) |-> Compare(op, col.data[k], t)]

(* level-triggered variant: every row of the mask, not only its rising edges *)
RisingEdgeLevel(mask) == [k \in 1..Len(mask) |-> mask[k]]

RisingEdge(mask) ==
    LET prev == Shift(mask, 1, FALSE)
    IN  [k \in 1..Len(mask) |-> mask[k] /\ ~prev[k]]

RECURSIVE DurationCheck(_, _, _, _)
DurationCheck(mask, acc, j, d) ==
    IF j >= d THEN acc
    ELSE LET ahead == Shift(mask, -j, FALSE)
         IN  DurationCheck(mask, [k \in 1..Len(mask) |-> acc[k] \/ ahead[k]], j + 1, d)

detect_threshold_events(t, column, threshold, condition, event_name, min_duration_rows) ==
    IF condition \notin Comparators THEN Raised("ValueError")
    ELSE IF column \notin DOMAIN t \/ TimeCol \notin DOMAIN t THEN Raised("KeyError")
    ELSE
        LET mask  == MaskOf(t[column], condition, threshold)
            edge  == RisingEdge(mask)
            check == DurationCheck(mask, [k \in 1..Len(mask) |-> FALSE], 0, min_duration_rows)
            rising_edge == IF min_duration_rows > 1
                           THEN [k \in 1..Len(mask) |-> edge[k] /\ check[k]]
                           ELSE edge
            event_indices == EventIndices(rising_edge)
        IN  Returned([columns |-> EventColumns,
                      rows |-> [n \in 1..Len(event_indices) |->
                                  [timestamp |-> t[TimeCol].data[event_indices[n]],
                                   activity  |-> <<event_name>>,
                                   value     |-> CellOf(t[column], event_indices[n])]]])

PyStr(dtype, v) ==
    IF dtype = "bool" THEN (IF v = 1 THEN "True" ELSE "False")
    ELSE IF v = NaN THEN "nan"
    ELSE CASE v = 4 -> "4" [] v = 30 -> "30" [] OTHER -> "?"

StateLabel(col, event_name_prefix, idx) ==
    IF idx = 1 THEN <<event_name_prefix, " ", "Start">>
    ELSE <<event_name_prefix, " ", PyStr(col.dtype, PrevValues(col.data)[idx]),
           "->", PyStr(col.dtype, col.data[idx])>>

(* elementwise != of a column with its shift: a missing value differs from everything *)
Differs(x, y) == x = NaN \/ y = NaN \/ x # y

detect_state_change_events(t, column, event_name_prefix, ignore_nan) ==
    IF column \notin DOMAIN t THEN Raised("KeyError")
    ELSE
        LET col  == t[column]
            prev == PrevValues(col.data)
            changed == [k \in 1..Len(col.data) |->
                          /\ Differs(col.data[k], prev[k])
                          /\ (ignore_nan => (col.data[k] # NaN /\ prev[k] # NaN))]
            event_indices == EventIndices(changed)
        IN  IF Len(event_indices) = 0 THEN Returned(EmptyEvents)
            ELSE IF TimeCol \notin DOMAIN t THEN Raised("KeyError")
            ELSE Returned([columns |-> EventColumns,
                           rows |-> [n \in 1..Len(event_indices) |->
                                       [timestamp |-> t[TimeCol].data[event_indices[n]],
                                        activity  |-> StateLabel(col, event_name_prefix, event_indices[n]),
                                        value     |-> CellOf(col, event_indices[n])]]])

RECURSIVE CombineMasks(_, _, _, _)
CombineMasks(masks, combined, j, conj) ==
    IF j > Len(masks) THEN combined
    ELSE CombineMasks(masks,
                      [k \in 1..Len(combined) |->
                          IF conj THEN combined[k] /\ masks[j][k] ELSE combined[k] \/ masks[j][k]],
                      j + 1, conj)

detect_combined_condition_events(t, conditions, event_name, mode) ==
    IF \E c \in Range(conditions) : Len(c) # 3 THEN Raised("ValueError")
    ELSE IF \E c \in Range(conditions) : c[2] \notin Comparators \/ c[1] \notin DOMAIN t
         THEN Raised("KeyError")
    ELSE IF Len(conditions) = 0 THEN Raised("IndexError")
    ELSE IF TimeCol \notin DOMAIN t THEN Raised("KeyError")
    ELSE
        LET masks == [j \in 1..Len(conditions) |->
                         MaskOf(t[conditions[j][1]], conditions[j][2], conditions[j][3])]
            combined == CombineMasks(masks, masks[1], 2, mode = "all")
            rising_edge == RisingEdge(combined)
            event_indices == EventIndices(rising_edge)
        IN  Returned([columns |-> EventColumns,
                      rows |-> [n \in 1..Len(event_indices) |->
                                  [timestamp |-> t[TimeCol].data[event_indices[n]],
                                   activity  |-> <<event_name>>,
                                   value     |-> Float(NaN)]]])

-----------------------------------------------------------------------------
(* getattr(classifier, method) called with the keyword arguments of args:  *)
(* they must fit the signature of the method                               *)

ArgsFit(args, required, optional) ==
    /\ required \subseteq DOMAIN args
    /\ DOMAIN args \subseteq (required \cup optional)

Invoke(t, method, args) ==
    CASE method = "detect_threshold_events" ->
            IF ~ArgsFit(args, {"column", "threshold", "condition", "event_name"}, {"min_duration_rows"})
            THEN Raised("TypeError")
            ELSE detect_threshold_events(t, args.column, args.threshold, args.condition, args.event_name,
                     IF "min_duration_rows" \in DOMAIN args THEN args.min_duration_rows ELSE 1)
      [] method = "detect_state_change_events" ->
            IF ~ArgsFit(args, {"column", "event_name_prefix"}, {"ignore_nan"})
            THEN Raised("TypeError")
            ELSE detect_state_change_events(t, args.column, args.event_name_prefix,
                     IF "ignore_nan" \in DOMAIN args THEN args.ignore_nan ELSE TRUE)
      [] method = "detect_combined_condition_events" ->
            IF ~ArgsFit(args, {"conditions", "event_name"}, {"mode"})
            THEN Raised("TypeError")
            ELSE detect_combined_condition_events(t, args.conditions, args.event_name,
                     IF "mode" \in DOMAIN args THEN args.mode ELSE "all")
      [] OTHER -> Raised("AttributeError")

-----------------------------------------------------------------------------
(* WaveletDenoiser                                                         *)

(* A WaveletDenoiser bound to the table, or no instance. The energy        *)
(* profile of a channel comes out of the pywt library: exc is the          *)
(* exception compute_energy ends with ("None" when it returns) and         *)
(* above[k] tells whether the energy of row k exceeds                      *)
(* mean + threshold_sigma * std.                                           *)
NoWd == [supplied |-> FALSE, exc |-> "None", above |-> <<>>]

Wd(exc, above) == [supplied |-> TRUE, exc |-> exc, above |-> above]

(* hasattr(wd, name): the attributes and methods of an instance *)
WdAttributes ==
    {"df", "wavelet", "level",
     "denoise_channel", "denoise_all", "compute_energy", "detect_energy_change_points"}

WdResult(exc, events, warnings, decompositions) ==
    [exc |-> exc, events |-> events, warnings |-> warnings, decompositions |-> decompositions]

(* compute_energy and the rising edges of energy > threshold *)
EnergyEvents(t, w, event_name) ==
    IF w.exc # "None" THEN WdResult(w.exc, EmptyEvents, 0, 1)
    ELSE IF TimeCol \notin DOMAIN t THEN WdResult("KeyError", EmptyEvents, 0, 1)
    ELSE
        LET above == w.above
            shifted == Shift(above, 1, FALSE)
            rising_edge == [k \in 1..Len(above) |-> above[k] /\ ~shifted[k]]
            event_indices == EventIndices(rising_edge)
        IN  WdResult("None",
                     [columns |-> EventColumns,
                      rows |-> [n \in 1..Len(event_indices) |->
                                  [timestamp |-> t[TimeCol].data[event_indices[n]],
                                   activity  |-> <<event_name>>,
                                   value     |-> [kind |-> "energy", num |-> event_indices[n]]]]],
                     0, 1)

(* variant without the column check: compute_energy reads the channel *)
detect_energy_change_points_unchecked(t, w, column, event_name) ==
    IF column \notin DOMAIN t THEN WdResult("KeyError", EmptyEvents, 0, 0)
    ELSE EnergyEvents(t, w, event_name)

detect_energy_change_points(t, w, column, event_name) ==
    IF column \notin DOMAIN t THEN WdResult("None", EmptyEvents, 1, 0)
    ELSE EnergyEvents(t, w, event_name)

(* getattr(wd, method) called with the keyword arguments of args. The      *)
(* methods that return a series (denoise_channel, denoise_all,             *)
(* compute_energy) are not event detectors and are left out.               *)
WdInvoke(t, w, method, args) ==
    CASE method = "detect_energy_change_points" ->
            IF ~ArgsFit(args, {"column", "event_name"}, {"threshold_sigma"})
            THEN WdResult("TypeError", EmptyEvents, 0, 0)
            ELSE detect_energy_change_points(t, w, args.column, args.event_name)
      [] method \in {"df", "wavelet", "level"} -> WdResult("TypeError", EmptyEvents, 0, 0)
      [] method \notin WdAttributes -> WdResult("AttributeError", EmptyEvents, 0, 0)

-----------------------------------------------------------------------------
(* dispatch_ship_events                                                    *)

NA == "NaN"

(* variant that stores the name of the column in place of the values *)
SetColumnLiteral(events, name, values) ==
    [columns |-> IF name \in Range(events.columns) THEN events.columns
                 ELSE Append(events.columns, name),
     rows |-> [n \in 1..Len(events.rows) |-> (name :> name) @@ events.rows[n]]]

(* events[name] = ... : an existing column is overwritten, a new one is appended *)
SetColumn(events, name, values) ==
    [columns |-> IF name \in Range(events.columns) THEN events.columns
                 ELSE Append(events.columns, name),
     rows |-> [n \in 1..Len(events.rows) |-> (name :> values[n]) @@ events.rows[n]]]

(* variant that keeps the rows whose label was not mapped *)
DropNaKeepAll(events, name) == events

DropNa(events, name) ==
    [columns |-> events.columns,
     rows |-> SelectSeq(events.rows, LAMBDA row : row[name] # NA)]

DerivedName(prefix) ==
    CASE prefix = "low_oil" -> "_derived_low_oil"
      [] prefix = "hi_rpm"  -> "_derived_hi_rpm"
      [] prefix = "hot"     -> "_derived_hot"
      [] OTHER              -> "_derived_"

(* variant with the two transition types exchanged *)
TMapSwapped(prefix, activity) ==
    IF activity = <<prefix, " ", "False", "->", "True">> THEN "error_recovery"
    ELSE IF activity = <<prefix, " ", "True", "->", "False">> THEN "error_activation"
    ELSE NA

(* variant that takes the Start label of the first row for an activation *)
TMapStartActivation(prefix, activity) ==
    IF activity \in {<<prefix, " ", "False", "->", "True">>, <<prefix, " ", "Start">>}
    THEN "error_activation"
    ELSE IF activity = <<prefix, " ", "True", "->", "False">> THEN "error_recovery"
    ELSE NA

TMap(prefix, activity) ==
    IF activity = <<prefix, " ", "False", "->", "True">> THEN "error_activation"
    ELSE IF activity = <<prefix, " ", "True", "->", "False">> THEN "error_recovery"
    ELSE NA

(* variant that falls through to the append instead of warning and continuing *)
SkippedFallThrough == [outcome |-> "evaluated", exc |-> "None", events |-> EmptyEvents]

Skipped == [outcome |-> "skipped", exc |-> "None", events |-> EmptyEvents]

Failed(e) == [outcome |-> "failed", exc |-> e, events |-> EmptyEvents]

Evaluated(events) == [outcome |-> "evaluated", exc |-> "None", events |-> events]

NoCall == [method |-> "None", args |-> <<>>]

(* the call getattr(target, method) with args, on a target bound to table t *)
Invocation(target, method, args, t) ==
    [target |-> target, method |-> method, args |-> args, columns |-> DOMAIN t]

(* what the try block of an entry leaves behind: its outcome, the detector *)
(* call it made (NoCall when it made none) and the caller's table          *)
Effects(r, c, t) ==
    [outcome |-> r.outcome, exc |-> r.exc, events |-> r.events, call |-> c, df |-> t]

(* variant that binds entry_df to the caller's table itself *)
ShallowCopyAliased(objs) == [ref |-> "df", objs |-> objs]

(* df.copy(deep=False): a new table object with the columns of df *)
ShallowCopy(objs) == [ref |-> "entry_df", objs |-> ("entry_df" :> objs["df"]) @@ objs]

(* obj[name] = col on the table object that ref names *)
AssignColumn(objs, ref, name, col) ==
    [o \in DOMAIN objs |-> IF o = ref THEN (name :> col) @@ objs[o] ELSE objs[o]]

DerivedEntry(t, entry) ==
    LET dc == entry.derived_column
    IN  IF Len(dc) # 3 THEN Effects(Failed("ValueError"), NoCall, t)
        ELSE IF dc[1] \notin DOMAIN t
             THEN Effects(IF "args" \in DOMAIN entry THEN Skipped ELSE Failed("KeyError"),
                          NoCall, t)
        ELSE IF dc[2] \notin Comparators THEN Effects(Failed("KeyError"), NoCall, t)
        ELSE IF "args" \notin DOMAIN entry THEN Effects(Failed("KeyError"), NoCall, t)
        ELSE IF "event_name_prefix" \notin DOMAIN entry.args
             THEN Effects(Failed("KeyError"), NoCall, t)
        ELSE
            LET src      == t[dc[1]]
                derived  == [dtype |-> "bool",
                             data |-> [k \in 1..Len(src.data) |->
                                         IF Compare(dc[2], src.data[k], dc[3]) THEN 1 ELSE 0]]
                copy     == ShallowCopy("df" :> t)
                prefix   == entry.args.event_name_prefix
                temp_col == DerivedName(prefix)
                objs     == AssignColumn(copy.objs, copy.ref, temp_col, derived)
                entry_df == objs[copy.ref]
                args     == ("column" :> temp_col) @@ entry.args
            IN  IF "method" \notin DOMAIN entry
                THEN Effects(Failed("KeyError"), NoCall, objs["df"])
                ELSE
                    LET r == Invoke(entry_df, entry.method, args)
                        c == Invocation("entry_ec", entry.method, args, entry_df)
                    IN  IF r.exc # "None" THEN Effects(Failed(r.exc), c, objs["df"])
                        ELSE
                            LET labels == [n \in 1..Len(r.events.rows) |->
                                              TMap(prefix, r.events.rows[n].activity)]
                                mapped == SetColumn(r.events, "transition_type", labels)
                                kept   == DropNa(mapped, "transition_type")
                            IN  Effects(Evaluated(SetColumn(kept, "subsystem",
                                            [n \in 1..Len(kept.rows) |-> entry.subsystem])),
                                        c, objs["df"])

(* variant that sends every method to the wavelet engine when one is supplied *)
TargetAlwaysWd(w, method) == IF w.supplied THEN "wd" ELSE "ec"

(* wd if (wd is not None and hasattr(wd, method)) else ec *)
Target(w, method) == IF w.supplied /\ method \in WdAttributes THEN "wd" ELSE "ec"

SimpleCall(t, w, entry) ==
    IF "method" \notin DOMAIN entry THEN Effects(Failed("KeyError"), NoCall, t)
    ELSE
        LET target == Target(w, entry.method)
            r == IF target = "wd" THEN WdInvoke(t, w, entry.method, entry.args)
                 ELSE Invoke(t, entry.method, entry.args)
            c == Invocation(target, entry.method, entry.args, t)
        IN  IF r.exc # "None" THEN Effects(Failed(r.exc), c, t)
            ELSE IF "transition_type" \notin DOMAIN entry THEN Effects(Failed("KeyError"), c, t)
            ELSE
                LET tagged == SetColumn(r.events, "transition_type",
                                        [n \in 1..Len(r.events.rows) |-> entry.transition_type])
                IN  Effects(Evaluated(SetColumn(tagged, "subsystem",
                                [n \in 1..Len(tagged.rows) |-> entry.subsystem])),
                            c, t)

(* variant that finds every column in the table *)
ColumnMissingNever(t, column) == FALSE

(* col not in df.columns *)
ColumnMissing(t, column) == column \notin DOMAIN t

SimpleEntry(t, w, entry) ==
    IF "args" \notin DOMAIN entry THEN Effects(Failed("KeyError"), NoCall, t)
    ELSE
        LET args == entry.args
        IN  IF "conditions" \in DOMAIN args
            THEN (IF \E c \in Range(args.conditions) : Len(c) # 3
                  THEN Effects(Failed("ValueError"), NoCall, t)
                  ELSE IF \E c \in Range(args.conditions) : ColumnMissing(t, c[1])
                  THEN Effects(Skipped, NoCall, t)
                  ELSE SimpleCall(t, w, entry))
            ELSE IF "column" \in DOMAIN args /\ ColumnMissing(t, args.column)
                 THEN Effects(Skipped, NoCall, t)
            ELSE SimpleCall(t, w, entry)

(* body of the per-entry try block *)
EvalEntry(t, w, entry) ==
    IF "derived_column" \in DOMAIN entry THEN DerivedEntry(t, entry) ELSE SimpleEntry(t, w, entry)

Diagnostic(entry, r) == [kind |-> r.outcome, subsystem |-> entry.subsystem, exc |-> r.exc]

EmptyLog == [columns |-> <<"timestamp", "activity", "subsystem", "transition_type", "value">>,
             rows |-> <<>>]

RECURSIVE ConcatColumns(_, _)
ConcatColumns(fs, acc) ==
    IF fs = <<>> THEN acc
    ELSE ConcatColumns(Tail(fs),
                       acc \o SelectSeq(Head(fs).columns, LAMBDA c : c \notin Range(acc)))

RECURSIVE ConcatRows(_)
ConcatRows(fs) == IF fs = <<>> THEN <<>> ELSE Head(fs).rows \o ConcatRows(Tail(fs))

(* pd.concat(frames, ignore_index=True); every frame carries the same columns *)
Concat(fs) == [columns |-> ConcatColumns(fs, <<>>), rows |-> ConcatRows(fs)]

Orderings(rows) ==
    {[k \in 1..Len(rows) |-> rows[f[k]]] : f \in Permutations(1..Len(rows))}

MinTimestamp(rows) ==
    CHOOSE m \in {r.timestamp : r \in Range(rows)} : \A r \in Range(rows) : m <= r.timestamp

(* variant that keeps one row of every group of equal timestamps *)
RECURSIVE SortValuesDropTies(_)
SortValuesDropTies(rows) ==
    IF rows = <<>> THEN {<<>>}
    ELSE LET m    == MinTimestamp(rows)
             rest == SelectSeq(rows, LAMBDA r : r.timestamp # m)
         IN  {<<r>> \o s : r \in {q \in Range(rows) : q.timestamp = m},
                           s \in SortValuesDropTies(rest)}

(* variant that returns the concatenation as it is *)
SortValuesOmitted(rows) == {rows}

(* sort_values("timestamp") with the default kind="quicksort": ascending by    *)
(* timestamp, the order of rows with equal timestamps is not specified         *)
RECURSIVE SortValues(_)
SortValues(rows) ==
    IF rows = <<>> THEN {<<>>}
    ELSE LET m     == MinTimestamp(rows)
             group == SelectSeq(rows, LAMBDA r : r.timestamp = m)
             rest  == SelectSeq(rows, LAMBDA r : r.timestamp # m)
         IN  {g \o s : g \in Orderings(group), s \in SortValues(rest)}

-----------------------------------------------------------------------------
(* Inputs                                                                  *)

Levels == {4, 30}

FloatColumn(data) == [dtype |-> "float", data |-> data]

Timestamps(n, paired) == [k \in 1..n |-> IF paired THEN (k - 1) \div 2 ELSE k - 1]

Table(time, oil, rpm) ==
    (TimeCol :> FloatColumn(time)) @@ ("oil_psi" :> FloatColumn(oil)) @@ ("rpm" :> FloatColumn(rpm))

OilTable ==
    (TimeCol :> FloatColumn(<<0, 1, 2, 3, 4, 5>>)) @@ ("oil_psi" :> FloatColumn(<<30, 30, 30, 4, 4, 30>>))

(* the (oil_psi, rpm) samples of a row: each channel takes both levels, and *)
(* the conditions oil_psi < 5, rpm > 5 and their conjunction all differ     *)
RowKinds == {<<4, 30>>, <<30, 30>>, <<4, 4>>}

Tables ==
    {OilTable} \cup
    UNION {{Table(Timestamps(n, TRUE), [k \in 1..n |-> rows[k][1]], [k \in 1..n |-> rows[k][2]]) :
               rows \in [1..n -> RowKinds]} :
           n \in 0..MaxRows}

OilRule ==
    [subsystem |-> "Lubrication", method |-> "detect_state_change_events",
     derived_column |-> <<"oil_psi", "<", 5>>, args |-> [event_name_prefix |-> "low_oil"]]

RpmRule ==
    [subsystem |-> "Engine", method |-> "detect_state_change_events",
     derived_column |-> <<"rpm", ">", 5>>,
     args |-> [event_name_prefix |-> "hi_rpm", ignore_nan |-> FALSE]]

OverrevRule ==
    [subsystem |-> "Drivetrain", transition_type |-> "error_activation",
     method |-> "detect_threshold_events",
     args |-> [column |-> "rpm", threshold |-> 5, condition |-> ">", event_name |-> "overrev"]]

LuggingRule ==
    [subsystem |-> "Engine", transition_type |-> "error_activation",
     method |-> "detect_combined_condition_events",
     args |-> [conditions |-> <<<<"oil_psi", "<", 5>>, <<"rpm", ">", 5>>>>, event_name |-> "lugging"]]

ValidRules == {OilRule, RpmRule, OverrevRule, LuggingRule}

(* rules of valid shape that reference the channel "egt", which no table has *)
AbsentDerivedRule ==
    [subsystem |-> "Engine", method |-> "detect_state_change_events",
     derived_column |-> <<"egt", ">", 5>>, args |-> [event_name_prefix |-> "hot"]]

AbsentColumnRule ==
    [subsystem |-> "Engine", transition_type |-> "error_activation",
     method |-> "detect_threshold_events",
     args |-> [column |-> "egt", threshold |-> 5, condition |-> ">", event_name |-> "egt_high"]]

AbsentConditionRule ==
    [subsystem |-> "Engine", transition_type |-> "error_activation",
     method |-> "detect_combined_condition_events",
     args |-> [conditions |-> <<<<"rpm", ">", 5>>, <<"egt", ">", 5>>>>, event_name |-> "egt_load"]]

AbsentChannelRules == {AbsentDerivedRule, AbsentColumnRule, AbsentConditionRule}

(* rules of malformed shape *)
NoSubsystemRule ==
    [transition_type |-> "error_activation", method |-> "detect_threshold_events",
     args |-> [column |-> "rpm", threshold |-> 5, condition |-> ">", event_name |-> "overrev"]]

NoArgsRule ==
    [subsystem |-> "Drivetrain", transition_type |-> "error_activation",
     method |-> "detect_threshold_events"]

NoMethodRule ==
    [subsystem |-> "Lubrication",
     derived_column |-> <<"oil_psi", "<", 5>>, args |-> [event_name_prefix |-> "low_oil"]]

NoTransitionTypeRule ==
    [subsystem |-> "Drivetrain", method |-> "detect_threshold_events",
     args |-> [column |-> "rpm", threshold |-> 5, condition |-> ">", event_name |-> "overrev"]]

BadDerivedColumnRule ==
    [subsystem |-> "Lubrication", method |-> "detect_state_change_events",
     derived_column |-> <<"oil_psi", "<">>, args |-> [event_name_prefix |-> "low_oil"]]

MalformedRules ==
    {NoSubsystemRule, NoArgsRule, NoMethodRule, NoTransitionTypeRule, BadDerivedColumnRule}

(* rules of valid shape with a configuration error *)
BadComparatorDerivedRule ==
    [subsystem |-> "Lubrication", method |-> "detect_state_change_events",
     derived_column |-> <<"oil_psi", "!=", 5>>, args |-> [event_name_prefix |-> "low_oil"]]

BadConditionRule ==
    [subsystem |-> "Engine", transition_type |-> "error_activation",
     method |-> "detect_combined_condition_events",
     args |-> [conditions |-> <<<<"oil_psi", "<", 5>>, <<"rpm", "!=", 5>>>>, event_name |-> "lugging"]]

BadModeRule ==
    [subsystem |-> "Engine", transition_type |-> "error_activation",
     method |-> "detect_combined_condition_events",
     args |-> [conditions |-> <<<<"oil_psi", "<", 5>>, <<"rpm", ">", 5>>>>, event_name |-> "lugging",
               mode |-> "xor"]]

UnknownMethodRule ==
    [subsystem |-> "Drivetrain", transition_type |-> "error_activation",
     method |-> "detect_spike_events",
     args |-> [column |-> "rpm", threshold |-> 5, condition |-> ">", event_name |-> "overrev"]]

BadArgsRule ==
    [subsystem |-> "Drivetrain", transition_type |-> "error_activation",
     method |-> "detect_threshold_events",
     args |-> [column |-> "rpm", condition |-> ">", event_name |-> "overrev"]]

ConfigErrorRules ==
    {BadComparatorDerivedRule, BadConditionRule, BadModeRule, UnknownMethodRule, BadArgsRule}

(* a rule whose method only the wavelet engine has *)
EnergyRule ==
    [subsystem |-> "Propulsion", transition_type |-> "structural_change",
     method |-> "detect_energy_change_points",
     args |-> [column |-> "rpm", event_name |-> "rpm_shift"]]

Rules == ValidRules \cup AbsentChannelRules \cup MalformedRules \cup ConfigErrorRules

(* the valid rules listed next to a rule that is skipped or fails: one of *)
(* each shape                                                            *)
Companions == {OilRule, OverrevRule}

(* rule lists of valid rules, and of companions with one other rule of the *)
(* catalogue                                                               *)
ConfigsOver(rules) ==
    {cfg \in UNION {[1..n -> rules] : n \in 0..MaxRules} :
        LET others == {k \in DOMAIN cfg : cfg[k] \notin ValidRules}
        IN  \/ others = {}
            \/ /\ Cardinality(others) = 1
               /\ \A k \in DOMAIN cfg \ others : cfg[k] \in Companions}

Configs == ConfigsOver(Rules)

(* the outcomes of the energy computation on a table of n rows: an error,  *)
(* or a profile above the threshold in at most one row                     *)
WdInstances(n) ==
    {Wd("ValueError", [k \in 1..n |-> FALSE])} \cup
    {Wd("None", [k \in 1..n |-> k = j]) : j \in 0..n}

NoReturn == [exc |-> "NotCalled", events |-> EmptyEvents]

-----------------------------------------------------------------------------
(* dispatch_ship_events as a state machine: one step per entry of config,  *)
(* then the merge                                                          *)

Init ==
    /\ df \in Tables
    /\ config \in Configs
    /\ wd = NoWd
    /\ pc = "loop"
    /\ i = 1
    /\ frames = <<>>
    /\ diags = <<>>
    /\ log = EmptyLog
    /\ call = NoCall
    /\ ret = NoReturn

InLoop == pc = "loop" /\ i <= Len(config)

(* entry["subsystem"] is read before the try block *)
RaiseKeyError ==
    /\ InLoop
    /\ "subsystem" \notin DOMAIN config[i]
    /\ pc' = "raised"
    /\ UNCHANGED <<df, config, wd, i, frames, diags, log, call, ret>>

SkipEntry ==
    /\ InLoop
    /\ "subsystem" \in DOMAIN config[i]
    /\ LET r == EvalEntry(df, wd, config[i])
       IN  /\ r.outcome = "skipped"
           /\ diags' = Append(diags, Diagnostic(config[i], r))
           /\ call' = r.call
           /\ df' = r.df
    /\ i' = i + 1
    /\ UNCHANGED <<config, wd, pc, frames, log, ret>>

FailEntry ==
    /\ InLoop
    /\ "subsystem" \in DOMAIN config[i]
    /\ LET r == EvalEntry(df, wd, config[i])
       IN  /\ r.outcome = "failed"
           /\ diags' = Append(diags, Diagnostic(config[i], r))
           /\ call' = r.call
           /\ df' = r.df
    /\ i' = i + 1
    /\ UNCHANGED <<config, wd, pc, frames, log, ret>>

AppendEntry ==
    /\ InLoop
    /\ "subsystem" \in DOMAIN config[i]
    /\ LET r == EvalEntry(df, wd, config[i])
       IN  /\ r.outcome = "evaluated"
           /\ frames' = Append(frames, r.events)
           /\ call' = r.call
           /\ df' = r.df
    /\ i' = i + 1
    /\ UNCHANGED <<config, wd, pc, diags, log, ret>>

ReturnEmpty ==
    /\ pc = "loop"
    /\ i > Len(config)
    /\ frames = <<>>
    /\ log' = EmptyLog
    /\ pc' = "done"
    /\ UNCHANGED <<df, config, wd, i, frames, diags, call, ret>>

ReturnMerged ==
    /\ pc = "loop"
    /\ i > Len(config)
    /\ frames # <<>>
    /\ \E sorted \in SortValues(Concat(frames).rows) :
           log' = [columns |-> Concat(frames).columns, rows |-> sorted]
    /\ pc' = "done"
    /\ UNCHANGED <<df, config, wd, i, frames, diags, call, ret>>

Next ==
    \/ RaiseKeyError
    \/ SkipEntry
    \/ FailEntry
    \/ AppendEntry
    \/ ReturnEmpty
    \/ ReturnMerged

Spec == Init /\ [][Next]_vars

(* dispatch with a wavelet engine: the rule lists may name its method; the *)
(* outcome of the energy computation matters only to a list that does      *)
InitWd ==
    /\ df \in Tables
    /\ config \in ConfigsOver(Rules \cup {EnergyRule})
    /\ wd \in IF EnergyRule \in Range(config)
              THEN {NoWd} \cup WdInstances(NRows(df))
              ELSE {Wd("None", [k \in 1..NRows(df) |-> FALSE])}
    /\ pc = "loop"
    /\ i = 1
    /\ frames = <<>>
    /\ diags = <<>>
    /\ log = EmptyLog
    /\ call = NoCall
    /\ ret = NoReturn

SpecWd == InitWd /\ [][Next]_vars

-----------------------------------------------------------------------------
(* Direct calls of the classifier's detection methods                      *)

MaxDuration == 3

Samples == Levels \cup {NaN}

ClassifierTables ==
    UNION {{Table(Timestamps(n, FALSE), oil, rpm) :
               oil \in [1..n -> Samples], rpm \in [1..n -> Levels]} :
           n \in 0..MaxSamples}

ThresholdCalls ==
    {[method |-> "detect_threshold_events",
      args |-> [column |-> "oil_psi", threshold |-> th, condition |-> c,
                event_name |-> "oil_event", min_duration_rows |-> d]] :
        th \in {5, 30}, c \in Comparators, d \in 1..MaxDuration}

ConditionLists ==
    {<<<<"oil_psi", "<", 5>>>>,
     <<<<"oil_psi", "<", 5>>, <<"rpm", ">", 5>>>>,
     <<<<"rpm", "<=", 5>>, <<"oil_psi", ">=", 30>>>>,
     <<<<"oil_psi", "==", 30>>, <<"rpm", ">", 5>>, <<"oil_psi", ">", 5>>>>}

CombinedCalls ==
    {[method |-> "detect_combined_condition_events",
      args |-> [conditions |-> cs, event_name |-> "combined_event", mode |-> m]] :
        cs \in ConditionLists, m \in {"all", "any"}}

(* calls with a comparator or a combine mode outside the documented ones *)
BadComparatorCalls ==
    {[method |-> "detect_threshold_events",
      args |-> [column |-> "oil_psi", threshold |-> 5, condition |-> "!=",
                event_name |-> "oil_event", min_duration_rows |-> 1]],
     [method |-> "detect_combined_condition_events",
      args |-> [conditions |-> <<<<"oil_psi", "<", 5>>, <<"rpm", "!=", 5>>>>,
                event_name |-> "combined_event", mode |-> "all"]]}

BadModeCalls ==
    {[method |-> "detect_combined_condition_events",
      args |-> [conditions |-> <<<<"oil_psi", "<", 5>>, <<"rpm", ">", 5>>>>,
                event_name |-> "combined_event", mode |-> "xor"]]}

StateChangeCalls ==
    {[method |-> "detect_state_change_events",
      args |-> [column |-> c, event_name_prefix |-> "state", ignore_nan |-> b]] :
        c \in {"oil_psi", "rpm"}, b \in BOOLEAN}

(* direct calls of the wavelet engine, on a channel of the table or not *)
EnergyCalls ==
    {[method |-> "detect_energy_change_points",
      args |-> [column |-> c, event_name |-> "shift"]] : c \in {"rpm", "egt"}}

InitClassifier ==
    /\ df \in ClassifierTables
    /\ call \in ThresholdCalls \cup CombinedCalls \cup StateChangeCalls
                  \cup BadComparatorCalls \cup BadModeCalls \cup EnergyCalls
    /\ wd \in IF call \in EnergyCalls THEN WdInstances(NRows(df)) ELSE {NoWd}
    /\ pc = "ready"
    /\ ret = NoReturn
    /\ config = <<>>
    /\ i = 1
    /\ frames = <<>>
    /\ diags = <<>>
    /\ log = EmptyLog

CallThreshold ==
    /\ pc = "ready"
    /\ call.method = "detect_threshold_events"
    /\ ret' = Invoke(df, call.method, call.args)
    /\ pc' = "returned"
    /\ UNCHANGED <<df, config, wd, i, frames, diags, log, call>>

CallStateChange ==
    /\ pc = "ready"
    /\ call.method = "detect_state_change_events"
    /\ ret' = Invoke(df, call.method, call.args)
    /\ pc' = "returned"
    /\ UNCHANGED <<df, config, wd, i, frames, diags, log, call>>

CallCombined ==
    /\ pc = "ready"
    /\ call.method = "detect_combined_condition_events"
    /\ ret' = Invoke(df, call.method, call.args)
    /\ pc' = "returned"
    /\ UNCHANGED <<df, config, wd, i, frames, diags, log, call>>

(* warnings.warn of the wavelet engine *)
WdWarning(column) == [kind |-> "warning", subsystem |-> "WaveletDenoiser", column |-> column]

CallEnergyChangePoints ==
    /\ pc = "ready"
    /\ call.method = "detect_energy_change_points"
    /\ LET r == WdInvoke(df, wd, call.method, call.args)
       IN  /\ ret' = r
           /\ diags' = IF r.warnings = 1 THEN Append(diags, WdWarning(call.args.column))
                       ELSE diags
    /\ pc' = "returned"
    /\ UNCHANGED <<df, config, wd, i, frames, log, call>>

NextClassifier ==
    \/ CallThreshold
    \/ CallStateChange
    \/ CallCombined
    \/ CallEnergyChangePoints

SpecClassifier == InitClassifier /\ [][NextClassifier]_vars

-----------------------------------------------------------------------------
(* Direct calls of the wavelet engine's denoise_channel and compute_energy. *)
(* The coefficients are numbers the pywt library computes; the model       *)
(* follows the depth of the decomposition, the lengths of the arrays and   *)
(* the positions of the missing samples.                                   *)

MaxLevel == 3

(* None where an integer argument is optional *)
None == -1

(* the operand of "x or default" that yields the default *)
Falsy(v) == v \in {None, 0}

Maximum(a, b) == IF a >= b THEN a ELSE b

Minimum(a, b) == IF a <= b THEN a ELSE b

(* Wavelet(name).dec_len *)
DecLen(wavelet) ==
    CASE wavelet = "haar" -> 2
      [] wavelet = "db4"  -> 8

(* pywt.dwt_max_level: floor(log2(data_len / (dec_len - 1))), 0 for short data *)
dwt_max_level(data_len, wavelet) ==
    LET fits == {l \in 1..data_len : (DecLen(wavelet) - 1) * 2^l <= data_len}
    IN  IF fits = {} THEN 0 ELSE CHOOSE l \in fits : \A m \in fits : m <= l

(* pywt.dwt_coeff_len in the default symmetric mode *)
dwt_coeff_len(data_len, wavelet) == (data_len + DecLen(wavelet) - 1) \div 2

Coeff(kind, len) == [kind |-> kind, len |-> len, thresholded |-> FALSE]

(* the detail sets cD_level, ..., cD_1 of a signal of data_len samples *)
RECURSIVE Details(_, _, _)
Details(data_len, wavelet, level) ==
    IF level = 0 THEN <<>>
    ELSE LET len == dwt_coeff_len(data_len, wavelet)
         IN  Details(len, wavelet, level - 1) \o <<Coeff("detail", len)>>

(* pywt.wavedec(values, wavelet, level=level): [cA_level, cD_level, ..., cD_1]; *)
(* a level above dwt_max_level is decomposed all the same, with a warning      *)
wavedec(data_len, wavelet, level) ==
    LET details == Details(data_len, wavelet, level)
    IN  <<Coeff("approx", IF level = 0 THEN data_len ELSE details[1].len)>> \o details

(* pywt.threshold(c, threshold, mode="soft") *)
threshold(c) == [c EXCEPT !.thresholded = TRUE]

(* length of pywt.waverec(coeffs, wavelet): the inverse transform of cD_1 *)
waverec_len(coeffs, wavelet) ==
    IF Len(coeffs) = 1 THEN coeffs[1].len
    ELSE 2 * coeffs[Len(coeffs)].len - DecLen(wavelet) + 2

WaveletDenoiser(wavelet, level) == [supplied |-> TRUE, wavelet |-> wavelet, level |-> level]

WaveletResult(exc, series, level, coeffs, profiles) ==
    [exc |-> exc, series |-> series, level |-> level, coeffs |-> coeffs, profiles |-> profiles]

(* variant that thresholds the approximation coefficients as well *)
denoised_coeffs_all(coeffs) == [j \in 1..Len(coeffs) |-> threshold(coeffs[j])]

(* [coeffs[0]] + [pywt.threshold(c, ...) for c in coeffs[1:]] *)
denoised_coeffs(coeffs) ==
    <<coeffs[1]>> \o [j \in 1..Len(coeffs) - 1 |-> threshold(coeffs[j + 1])]

denoise_channel(t, w, column) ==
    IF column \notin DOMAIN t THEN WaveletResult("KeyError", <<>>, None, <<>>, <<>>)
    ELSE
        LET signal   == t[column].data
            nan_mask == [k \in 1..Len(signal) |-> signal[k] = NaN]
            n        == Len(signal)
            level    == IF Falsy(w.level) THEN dwt_max_level(n, w.wavelet) ELSE w.level
            coeffs   == wavedec(n, w.wavelet, level)
            denoised == denoised_coeffs(coeffs)
            reconstructed == Minimum(waverec_len(denoised, w.wavelet), n)
        IN  IF reconstructed # NRows(t)
            THEN WaveletResult("ValueError", <<>>, level, denoised, <<>>)
            ELSE WaveletResult("None",
                               [k \in 1..reconstructed |->
                                   IF nan_mask[k] THEN "nan" ELSE "denoised"],
                               level, denoised, <<>>)

(* one detail set of compute_energy: the lengths of the upsampled and of   *)
(* the windowed profile; np.pad in edge mode cannot extend an empty array  *)
Profile(detail, n, win) ==
    LET repeated  == detail.len * Maximum(1, n \div detail.len)
        upsampled == IF repeated < n THEN n ELSE Minimum(repeated, n)
        cumsum    == upsampled + 1
        windowed  == Maximum(0, cumsum - win)
        pad       == n - windowed
    IN  [upsampled |-> upsampled,
         exc |-> IF windowed = 0 /\ pad > 0 THEN "ValueError" ELSE "None",
         windowed |-> IF windowed = 0 /\ pad > 0 THEN 0
                      ELSE pad \div 2 + windowed + (pad - pad \div 2)]

compute_energy(t, w, column, window) ==
    IF column \notin DOMAIN t THEN WaveletResult("KeyError", <<>>, None, <<>>, <<>>)
    ELSE
        LET n      == Len(t[column].data)
            level  == IF Falsy(w.level) THEN dwt_max_level(n, w.wavelet) ELSE w.level
            coeffs == wavedec(n, w.wavelet, level)
            win    == IF Falsy(window) THEN 2^level ELSE window
            profiles == [j \in 1..Len(coeffs) - 1 |-> Profile(coeffs[j + 1], n, win)]
        IN  IF \E j \in DOMAIN profiles : profiles[j].exc # "None"
            THEN WaveletResult("ValueError", <<>>, level, coeffs, profiles)
            ELSE WaveletResult("None", [k \in 1..NRows(t) |-> "energy"], level, coeffs, profiles)

Wavelets == {"haar", "db4"}

WaveletTables == {t \in ClassifierTables : NRows(t) >= 1}

WaveletCalls ==
    {[method |-> "denoise_channel", args |-> [column |-> "oil_psi"]]} \cup
    {[method |-> "compute_energy", args |-> [column |-> "oil_psi", window |-> win]] :
        win \in {None} \cup 1..(MaxSamples + 1)}

InitWavelet ==
    /\ df \in WaveletTables
    /\ wd \in {WaveletDenoiser(wavelet, level) :
                  wavelet \in Wavelets, level \in {None} \cup 0..MaxLevel}
    /\ call \in WaveletCalls
    /\ pc = "ready"
    /\ ret = NoReturn
    /\ config = <<>>
    /\ i = 1
    /\ frames = <<>>
    /\ diags = <<>>
    /\ log = EmptyLog

CallDenoiseChannel ==
    /\ pc = "ready"
    /\ call.method = "denoise_channel"
    /\ ret' = denoise_channel(df, wd, call.args.column)
    /\ pc' = "returned"
    /\ UNCHANGED <<df, config, wd, i, frames, diags, log, call>>

CallComputeEnergy ==
    /\ pc = "ready"
    /\ call.method = "compute_energy"
    /\ ret' = compute_energy(df, wd, call.args.column, call.args.window)
    /\ pc' = "returned"
    /\ UNCHANGED <<df, config, wd, i, frames, diags, log, call>>

NextWavelet ==
    \/ CallDenoiseChannel
    \/ CallComputeEnergy

SpecWavelet == InitWavelet /\ [][NextWavelet]_vars

-----------------------------------------------------------------------------
(* The loop of dispatch_ship_events over a whole rule list                 *)

(* variant that leaves the loop after its first entry *)
RunLoopFirstOnly(t, w, cfg, acc) ==
    IF cfg = <<>> THEN acc
    ELSE IF "subsystem" \notin DOMAIN Head(cfg)
         THEN [raised |-> TRUE, frames |-> acc.frames, diags |-> acc.diags]
    ELSE LET r == EvalEntry(t, w, Head(cfg))
         IN  IF r.outcome = "evaluated"
             THEN [raised |-> FALSE, frames |-> Append(acc.frames, r.events), diags |-> acc.diags]
             ELSE [raised |-> FALSE, frames |-> acc.frames,
                   diags |-> Append(acc.diags, Diagnostic(Head(cfg), r))]

RECURSIVE RunLoop(_, _, _, _)
RunLoop(t, w, cfg, acc) ==
    IF cfg = <<>> THEN acc
    ELSE IF "subsystem" \notin DOMAIN Head(cfg)
         THEN [raised |-> TRUE, frames |-> acc.frames, diags |-> acc.diags]
    ELSE LET r == EvalEntry(t, w, Head(cfg))
         IN  RunLoop(r.df, w, Tail(cfg),
                     IF r.outcome = "evaluated"
                     THEN [raised |-> FALSE, frames |-> Append(acc.frames, r.events),
                           diags |-> acc.diags]
                     ELSE [raised |-> FALSE, frames |-> acc.frames,
                           diags |-> Append(acc.diags, Diagnostic(Head(cfg), r))])

Dispatch(t, w, cfg) == RunLoop(t, w, cfg, [raised |-> FALSE, frames |-> <<>>, diags |-> <<>>])

(* the logs the result construction can return for a list of frames *)
LogsOf(fs) ==
    IF fs = <<>> THEN {EmptyLog}
    ELSE {[columns |-> Concat(fs).columns, rows |-> sorted] : sorted \in SortValues(Concat(fs).rows)}

InsertAt(cfg, p, r) == SubSeq(cfg, 1, p - 1) \o <<r>> \o SubSeq(cfg, p, Len(cfg))

-----------------------------------------------------------------------------
(* The rules evaluated by independent tasks, in any order, and merged by   *)
(* (timestamp, original rule index). The source evaluates the rules in a   *)
(* sequential loop; its specification allows this schedule, and each task  *)
(* runs the try block of the loop on its rule. ret[k] is what the task of  *)
(* rule k returned.                                                        *)

Pending == [outcome |-> "pending", exc |-> "None", events |-> EmptyEvents]

TaskRaised == [outcome |-> "raised", exc |-> "KeyError", events |-> EmptyEvents]

ParallelRules == ValidRules \cup {AbsentColumnRule, NoArgsRule, NoSubsystemRule}

InitParallel ==
    /\ df \in Tables
    /\ config \in ConfigsOver(ParallelRules)
    /\ wd = NoWd
    /\ pc = "parallel"
    /\ i = 1
    /\ frames = <<>>
    /\ diags = <<>>
    /\ log = EmptyLog
    /\ call = NoCall
    /\ ret = [k \in 1..Len(config) |-> Pending]

EvalRule(k) ==
    /\ pc = "parallel"
    /\ ret[k] = Pending
    /\ "subsystem" \in DOMAIN config[k]
    /\ LET r == EvalEntry(df, wd, config[k])
       IN  /\ ret' = [ret EXCEPT ![k] = [outcome |-> r.outcome, exc |-> r.exc, events |-> r.events]]
           /\ diags' = IF r.outcome = "evaluated" THEN diags
                       ELSE Append(diags, Diagnostic(config[k], r))
           /\ call' = r.call
           /\ df' = r.df
    /\ UNCHANGED <<config, wd, pc, i, frames, log>>

RaiseRule(k) ==
    /\ pc = "parallel"
    /\ ret[k] = Pending
    /\ "subsystem" \notin DOMAIN config[k]
    /\ ret' = [ret EXCEPT ![k] = TaskRaised]
    /\ UNCHANGED <<df, config, wd, pc, i, frames, diags, log, call>>

(* the frames of the evaluated rules, in rule order *)
RECURSIVE FramesOf(_)
FramesOf(results) ==
    IF results = <<>> THEN <<>>
    ELSE (IF Head(results).outcome = "evaluated" THEN <<Head(results).events>> ELSE <<>>)
             \o FramesOf(Tail(results))

(* rows ordered by timestamp, rows of equal timestamp in their given order *)
RECURSIVE MergeByTimestampAndRule(_)
MergeByTimestampAndRule(rows) ==
    IF rows = <<>> THEN <<>>
    ELSE LET m == MinTimestamp(rows)
         IN  SelectSeq(rows, LAMBDA r : r.timestamp = m)
                 \o MergeByTimestampAndRule(SelectSeq(rows, LAMBDA r : r.timestamp # m))

MergeParallel ==
    /\ pc = "parallel"
    /\ \A k \in DOMAIN ret : ret[k].outcome \notin {"pending", "raised"}
    /\ frames' = FramesOf(ret)
    /\ log' = IF frames' = <<>> THEN EmptyLog
              ELSE [columns |-> Concat(frames').columns,
                    rows |-> MergeByTimestampAndRule(ConcatRows(frames'))]
    /\ pc' = "merged"
    /\ UNCHANGED <<df, config, wd, i, diags, call, ret>>

RaiseParallel ==
    /\ pc = "parallel"
    /\ \A k \in DOMAIN ret : ret[k] # Pending
    /\ \E k \in DOMAIN ret : ret[k] = TaskRaised
    /\ pc' = "raised"
    /\ UNCHANGED <<df, config, wd, i, frames, diags, log, call, ret>>

NextParallel ==
    \/ \E k \in DOMAIN config : EvalRule(k)
    \/ \E k \in DOMAIN config : RaiseRule(k)
    \/ MergeParallel
    \/ RaiseParallel

SpecParallel == InitParallel /\ [][NextParallel]_vars

-----------------------------------------------------------------------------
(* Claims about dispatch_ship_events (specification Spec)                  *)

(* C1: dispatch_ship_events never raises to its caller, whatever the shape *)
(* of the rules: it always returns an event log.                           *)
C1_NeverRaises == pc # "raised"

(* C2: for a valid rule list L (the config, once its loop has finished)    *)
(* and any rule r referencing a channel absent from the table, dispatching *)
(* L with r inserted at any position returns the same event log as L alone *)
(* (the result construction reads the frames alone, and the frames are the *)
(* same) and emits exactly one more diagnostic.                            *)
C2_Isolation ==
    (pc = "loop" /\ i > Len(config) /\ Range(config) \subseteq ValidRules) =>
        \A r \in AbsentChannelRules : \A p \in 1..(Len(config) + 1) :
            LET with == Dispatch(df, wd, InsertAt(config, p, r))
            IN  /\ ~with.raised
                /\ with.frames = frames
                /\ Len(with.diags) = Len(diags) + 1

C2_Witness ==
    /\ pc = "loop"
    /\ i > Len(config)
    /\ Len(config) = 2
    /\ Range(config) \subseteq ValidRules
    /\ Len(Concat(frames).rows) >= 2
    /\ Len(Dispatch(df, wd, InsertAt(config, 2, AbsentDerivedRule)).diags) = 1

(* C3: the returned log is ordered by non-decreasing timestamp.            *)
C3_SortedByTimestamp ==
    pc = "done" =>
        \A n \in 1..(Len(log.rows) - 1) : log.rows[n].timestamp <= log.rows[n + 1].timestamp

C3_Witness ==
    /\ pc = "done"
    /\ Len(frames) = 2
    /\ \E n \in 1..(Len(Concat(frames).rows) - 1) :
           Concat(frames).rows[n].timestamp > Concat(frames).rows[n + 1].timestamp

(* the stable order: by timestamp, ties in the order of the concatenation  *)
RECURSIVE StableSort(_)
StableSort(rows) ==
    IF rows = <<>> THEN <<>>
    ELSE LET m == MinTimestamp(rows)
         IN  SelectSeq(rows, LAMBDA r : r.timestamp = m)
                 \o StableSort(SelectSeq(rows, LAMBDA r : r.timestamp # m))

(* C4: records of the returned log with equal timestamps appear in the     *)
(* order of their rules in the rule list and, within one rule, in the      *)
(* order the detector emitted them.                                        *)
C4_StableTieBreak ==
    (pc = "done" /\ frames # <<>>) => log.rows = StableSort(Concat(frames).rows)

(* C5: the returned log has exactly the five columns timestamp, activity,  *)
(* subsystem, transition_type, value, in that order, empty or not.         *)
C5_FiveColumnsInOrder ==
    pc = "done" =>
        log.columns = <<"timestamp", "activity", "subsystem", "transition_type", "value">>

(* C6: when no rule contributes a record (empty rule list, every rule      *)
(* skipped or failed, or every evaluated rule detected nothing) the call   *)
(* raises no error and returns an empty log with the five columns.         *)
C6_EmptyLogWhenNoRecords ==
    (pc \in {"done", "raised"} /\ \A n \in 1..Len(frames) : frames[n].rows = <<>>) =>
        /\ pc = "done"
        /\ log.rows = <<>>
        /\ Len(log.columns) = 5
        /\ Range(log.columns) = {"timestamp", "activity", "subsystem", "transition_type", "value"}

Holds(op, v, y) ==
    v # NaN /\ ((op = ">" /\ v > y) \/ (op = "<" /\ v < y) \/ (op = ">=" /\ v >= y)
                  \/ (op = "<=" /\ v <= y) \/ (op = "==" /\ v = y))

(* a derived-state rule of valid shape whose source channel is in the table *)
IsDerivedStateRule(t, entry) ==
    /\ {"subsystem", "method", "derived_column", "args"} \subseteq DOMAIN entry
    /\ entry.method = "detect_state_change_events"
    /\ Len(entry.derived_column) = 3
    /\ entry.derived_column[1] \in DOMAIN t
    /\ entry.derived_column[2] \in Comparators
    /\ "event_name_prefix" \in DOMAIN entry.args

ConditionAt(t, entry, k) ==
    Holds(entry.derived_column[2], t[entry.derived_column[1]].data[k], entry.derived_column[3])

(* the rows i > 0 at which the derived condition changes, ascending *)
RECURSIVE TransitionsFrom(_, _, _)
TransitionsFrom(t, entry, k) ==
    IF k > NRows(t) THEN <<>>
    ELSE (IF k > 1 /\ ConditionAt(t, entry, k) # ConditionAt(t, entry, k - 1)
          THEN <<[timestamp |-> t[TimeCol].data[k],
                  transition_type |-> IF ConditionAt(t, entry, k) THEN "error_activation"
                                      ELSE "error_recovery"]>>
          ELSE <<>>) \o TransitionsFrom(t, entry, k + 1)

Transitions(rows) ==
    [n \in 1..Len(rows) |->
        [timestamp |-> rows[n].timestamp, transition_type |-> rows[n].transition_type]]

Count(rows, tt) == Cardinality({n \in 1..Len(rows) : rows[n].transition_type = tt})

(* C7: a derived-state rule whose source channel exists contributes exactly *)
(* one activation record at the timestamp of every row i > 0 where the     *)
(* condition is true at i and false at i-1, one recovery record at every   *)
(* row i > 0 where it is false at i and true at i-1, and nothing else.     *)
C7_DerivedStateContribution ==
    [][(InLoop /\ IsDerivedStateRule(df, config[i])) =>
          /\ Len(frames') = Len(frames) + 1
          /\ SubSeq(frames', 1, Len(frames)) = frames
          /\ Transitions(frames'[Len(frames')].rows) = TransitionsFrom(df, config[i], 1)
          /\ \A n \in 1..Len(frames'[Len(frames')].rows) :
                 frames'[Len(frames')].rows[n].subsystem = config[i].subsystem]_vars

(* the end-to-end scenario: oil_psi = [30,30,30,4,4,30], (oil_psi, "<", 5) *)
C7_Witness ==
    /\ pc = "done"
    /\ df = OilTable
    /\ config = <<OilRule>>
    /\ Transitions(log.rows) = <<[timestamp |-> 3, transition_type |-> "error_activation"],
                                 [timestamp |-> 5, transition_type |-> "error_recovery"]>>

(* C8: every record a derived-state rule contributes has transition_type   *)
(* activation or recovery, and the numbers of activation and of recovery   *)
(* records of the rule differ by at most 1.                                *)
C8_ActivationRecoveryPairing ==
    [][(InLoop /\ {"subsystem", "derived_column"} \subseteq DOMAIN config[i]
          /\ Len(frames') = Len(frames) + 1) =>
          LET rows == frames'[Len(frames')].rows
          IN  /\ \A n \in 1..Len(rows) :
                     rows[n].transition_type \in {"error_activation", "error_recovery"}
              /\ Count(rows, "error_activation") - Count(rows, "error_recovery") \in {-1, 0, 1}]_vars

C8_Witness ==
    /\ pc = "loop"
    /\ i = 2
    /\ config[1] = RpmRule
    /\ Len(frames) = 1
    /\ Count(frames[1].rows, "error_activation") = 1
    /\ Count(frames[1].rows, "error_recovery") = 1

-----------------------------------------------------------------------------
(* Claims about the classifier's methods (specification SpecClassifier)    *)

(* the (combined) condition of the pending call at row k of the table *)
MaskAt(k) ==
    IF call.method = "detect_threshold_events"
    THEN Holds(call.args.condition, df[call.args.column].data[k], call.args.threshold)
    ELSE IF call.args.mode = "all"
         THEN \A c \in Range(call.args.conditions) : Holds(c[2], df[c[1]].data[k], c[3])
         ELSE \E c \in Range(call.args.conditions) : Holds(c[2], df[c[1]].data[k], c[3])

IsEdge(k) == MaskAt(k) /\ (k = 1 \/ ~MaskAt(k - 1))

(* the returned records located at row k (the timestamps of ClassifierTables are distinct) *)
RecordsAt(k) ==
    {n \in 1..Len(ret.events.rows) : ret.events.rows[n].timestamp = df[TimeCol].data[k]}

(* C9: with min_duration 1, detect_threshold_events and                    *)
(* detect_combined_condition_events emit exactly one record at every row   *)
(* where the mask is true and the previous row's mask is false or absent,  *)
(* and no record at any other row.                                         *)
C9_RisingEdge ==
    (/\ pc = "returned"
     /\ call \in ThresholdCalls \cup CombinedCalls
     /\ \/ call.method = "detect_combined_condition_events"
        \/ call.method = "detect_threshold_events" /\ call.args.min_duration_rows = 1) =>
        /\ ret.exc = "None"
        /\ \A k \in 1..NRows(df) : Cardinality(RecordsAt(k)) = IF IsEdge(k) THEN 1 ELSE 0
        /\ Len(ret.events.rows) = Cardinality({k \in 1..NRows(df) : IsEdge(k)})

C9_Witness ==
    /\ pc = "returned"
    /\ call.method = "detect_combined_condition_events"
    /\ Len(call.args.conditions) = 2
    /\ NRows(df) = 3
    /\ MaskAt(1) /\ MaskAt(2) /\ ~MaskAt(3)
    /\ Len(ret.events.rows) = 1

(* the mask stays true for d consecutive rows starting at row k *)
RunAtLeast(k, d) == \A j \in 0..(d - 1) : k + j <= NRows(df) /\ MaskAt(k + j)

(* C10: for detect_threshold_events with min_duration_rows = d > 1, a      *)
(* rising edge whose run of true samples is shorter than d produces no     *)
(* record, and one whose run is d or longer produces exactly one record.   *)
C10_MinDurationSuppression ==
    (/\ pc = "returned"
     /\ call \in ThresholdCalls
     /\ call.args.min_duration_rows > 1) =>
        \A k \in 1..NRows(df) :
            IsEdge(k) => Cardinality(RecordsAt(k)) =
                             IF RunAtLeast(k, call.args.min_duration_rows) THEN 1 ELSE 0

(* the derived columns the rules of the catalogue can build *)
TempColumns == {DerivedName(prefix) : prefix \in {"low_oil", "hi_rpm", "hot"}}

EntryEvaluated == pc = "loop" /\ i' = i + 1

(* C12: dispatch leaves the caller's table unchanged (same columns, same   *)
(* values), and the _derived_<prefix> column of a rule is seen only by the *)
(* classifier of that rule: never by the shared classifier, by another     *)
(* rule or by the caller.                                                  *)
C12_CallerTableUnchanged ==
    [][/\ df' = df
       /\ (EntryEvaluated /\ call' # NoCall) =>
              call'.columns \cap TempColumns =
                  IF call'.target = "entry_ec" THEN {call'.args.column} ELSE {}]_vars

C12_Witness ==
    /\ pc = "done"
    /\ config = <<OilRule, RpmRule>>
    /\ call # NoCall
    /\ call.target = "entry_ec"
    /\ call.columns = DOMAIN df \cup {"_derived_hi_rpm"}
    /\ DOMAIN df \cap TempColumns = {}
    /\ log.rows # <<>>

(* C17: detect_energy_change_points called with a channel absent from the  *)
(* table returns an empty event frame with the columns timestamp,          *)
(* activity, value and emits one diagnostic, without raising and without   *)
(* attempting a decomposition.                                             *)
C17_AbsentChannelEnergy ==
    (/\ pc = "returned"
     /\ call.method = "detect_energy_change_points"
     /\ call.args.column \notin DOMAIN df) =>
        /\ ret.exc = "None"
        /\ ret.events = [columns |-> <<"timestamp", "activity", "value">>, rows |-> <<>>]
        /\ Len(diags) = 1
        /\ ret.decompositions = 0

C17_Witness ==
    /\ pc = "returned"
    /\ call.method = "detect_energy_change_points"
    /\ call.args.column = "egt"
    /\ NRows(df) = 2
    /\ wd.exc = "ValueError"
    /\ ret.exc = "None"
    /\ diags # <<>>

(* the value changes of the called channel between adjacent defined samples *)
ValueChanges ==
    LET data == df[call.args.column].data
    IN  {k \in 2..Len(data) : data[k] # NaN /\ data[k - 1] # NaN /\ data[k] # data[k - 1]}

(* C11: on a non-empty channel with n value changes, in ignore-missing     *)
(* mode or with it disabled on a channel without missing values,           *)
(* detect_state_change_events emits exactly n+1 records: the first sample  *)
(* as a "<prefix> Start" record, then one record per value change.         *)
C11_TransitionCompleteness ==
    (/\ pc = "returned"
     /\ call.method = "detect_state_change_events"
     /\ NRows(df) >= 1
     /\ call.args.ignore_nan \/ NaN \notin Range(df[call.args.column].data)) =>
        /\ ret.exc = "None"
        /\ Len(ret.events.rows) = Cardinality(ValueChanges) + 1
        /\ ret.events.rows[1].activity = <<call.args.event_name_prefix, " ", "Start">>

(* C13: called directly, threshold and combined-condition detection raise  *)
(* and return no events whenever a comparator is not one of >, <, >=, <=,  *)
(* ==, and combined-condition detection does the same whenever the mode is *)
(* neither "all" nor "any".                                                *)
C13_ConfigurationErrorRaises ==
    (/\ pc = "returned"
     /\ \/ /\ call.method = "detect_threshold_events"
           /\ call.args.condition \notin {">", "<", ">=", "<=", "=="}
        \/ /\ call.method = "detect_combined_condition_events"
           /\ \/ \E c \in Range(call.args.conditions) : c[2] \notin {">", "<", ">=", "<=", "=="}
              \/ call.args.mode \notin {"all", "any"}) =>
        /\ ret.exc # "None"
        /\ ret.events.rows = <<>>

RemoveAt(cfg, p) == SubSeq(cfg, 1, p - 1) \o SubSeq(cfg, p + 1, Len(cfg))

LoopEnded == pc = "loop" /\ i > Len(config)

(* C14: inside the dispatcher a rule with a configuration error (unknown   *)
(* comparator in derived_column or in a condition, unknown combine mode,   *)
(* unknown method name, malformed arguments) contributes no records and    *)
(* produces a diagnostic, and the rules after it contribute exactly what   *)
(* they would without it.                                                  *)
C14_ConfigurationErrorIsolated ==
    LoopEnded =>
        \A p \in DOMAIN config :
            config[p] \in ConfigErrorRules =>
                LET without == Dispatch(df, wd, RemoveAt(config, p))
                IN  /\ frames = without.frames
                    /\ Len(diags) = Len(without.diags) + 1

Occurrences(rows, r) == Cardinality({n \in 1..Len(rows) : rows[n] = r})

SameRecords(a, b) ==
    \A r \in Range(a) \cup Range(b) : Occurrences(a, r) = Occurrences(b, r)

(* C15: for rule lists that are permutations of one another, dispatch      *)
(* returns the same event log: the same records in the same row order.     *)
C15_RuleOrderIndependence ==
    pc = "done" =>
        \A cfg \in Orderings(config) : LogsOf(Dispatch(df, wd, cfg).frames) = {log}

(* C15, amended: for rule lists that are permutations of one another,      *)
(* dispatch raises for both or for neither, and the logs it returns are    *)
(* built from the same columns and the same records, as a multiset; they   *)
(* are ordered by timestamp, so they differ at most in the order of        *)
(* records with equal timestamps.                                          *)
C15_SameRecordsAnyOrder ==
    /\ pc = "raised" => \A cfg \in Orderings(config) : Dispatch(df, wd, cfg).raised
    /\ LoopEnded =>
           \A cfg \in Orderings(config) :
               LET other == Dispatch(df, wd, cfg)
               IN  /\ ~other.raised
                   /\ other.frames = <<>> <=> frames = <<>>
                   /\ Concat(other.frames).columns = Concat(frames).columns
                   /\ SameRecords(ConcatRows(other.frames), ConcatRows(frames))

C15_Witness ==
    /\ LoopEnded
    /\ Len(config) = 2
    /\ Len(frames) = 2
    /\ frames[1].rows # <<>> /\ frames[2].rows # <<>>
    /\ Dispatch(df, wd, <<config[2], config[1]>>).frames = <<frames[2], frames[1]>>
    /\ frames[1] # frames[2]
    /\ \E a \in Range(frames[1].rows), b \in Range(frames[2].rows) : a.timestamp = b.timestamp

(* the activity name a rule gives to its records *)
RuleName(entry) ==
    IF "derived_column" \in DOMAIN entry THEN entry.args.event_name_prefix
    ELSE entry.args.event_name

DetectorRecord(row) ==
    [timestamp |-> row.timestamp, activity |-> row.activity, value |-> row.value]

(* the rules of the list that make a record of this activity with these tags *)
RulesOf(row) ==
    {k \in DOMAIN config :
        /\ {"subsystem", "args"} \subseteq DOMAIN config[k]
        /\ row.activity[1] = RuleName(config[k])
        /\ row.subsystem = config[k].subsystem
        /\ "derived_column" \notin DOMAIN config[k] =>
               /\ "transition_type" \in DOMAIN config[k]
               /\ row.transition_type = config[k].transition_type}

(* C16: every record a simple rule contributes is a record returned by the *)
(* invoked detector for that rule's arguments, tagged with that rule's     *)
(* transition_type and subsystem; every record of a derived-state rule is  *)
(* tagged with that rule's subsystem; no record of the log carries the     *)
(* subsystem or transition_type of another rule.                           *)
C16_RecordsTaggedByOwnRule ==
    [][/\ (pc = "loop" /\ Len(frames') = Len(frames) + 1) =>
              LET entry == config[i]
                  rows  == frames'[Len(frames')].rows
              IN  /\ \A n \in 1..Len(rows) : rows[n].subsystem = entry.subsystem
                  /\ "derived_column" \notin DOMAIN entry =>
                         LET r == IF call'.target = "wd"
                                  THEN WdInvoke(df, wd, entry.method, entry.args)
                                  ELSE Invoke(df, entry.method, entry.args)
                         IN  /\ Len(rows) = Len(r.events.rows)
                             /\ \A n \in 1..Len(rows) :
                                    /\ DetectorRecord(rows[n]) = r.events.rows[n]
                                    /\ rows[n].transition_type = entry.transition_type
       /\ pc' = "done" => \A row \in Range(log'.rows) : RulesOf(row) # {}]_vars

C16_Witness ==
    /\ pc = "done"
    /\ config = <<EnergyRule, OilRule>>
    /\ wd.supplied
    /\ \E a, b \in Range(log.rows) :
           /\ a.subsystem = "Propulsion" /\ a.transition_type = "structural_change"
           /\ a.value.kind = "energy"
           /\ b.subsystem = "Lubrication" /\ b.transition_type = "error_activation"

(* a rule that names a channel the table does not have *)
ReferencesAbsent(t, entry) ==
    IF "derived_column" \in DOMAIN entry
    THEN Len(entry.derived_column) = 3 /\ entry.derived_column[1] \notin DOMAIN t
    ELSE /\ "args" \in DOMAIN entry
         /\ IF "conditions" \in DOMAIN entry.args
            THEN /\ \A c \in Range(entry.args.conditions) : Len(c) = 3
                 /\ \E c \in Range(entry.args.conditions) : c[1] \notin DOMAIN t
            ELSE "column" \in DOMAIN entry.args /\ entry.args.column \notin DOMAIN t

(* C19: for a rule that references a channel absent from the table, the    *)
(* diagnostic is emitted before any computation for that rule: no detector *)
(* method of the classifier or of the wavelet engine is invoked, no        *)
(* derived column is built, and nothing is raised from inside a detector.  *)
C19_AbsentChannelBeforeComputation ==
    [][(InLoop /\ "subsystem" \in DOMAIN config[i] /\ "args" \in DOMAIN config[i]
              /\ ReferencesAbsent(df, config[i])) =>
           /\ call' = NoCall
           /\ diags' = Append(diags, [kind |-> "skipped", subsystem |-> config[i].subsystem,
                                      exc |-> "None"])
           /\ frames' = frames
           /\ df' = df]_vars

C19_Witness ==
    /\ LoopEnded
    /\ Len(config) = 2
    /\ config[1] = OverrevRule
    /\ config[2] \in {AbsentDerivedRule, AbsentColumnRule, AbsentConditionRule}
    /\ call = NoCall
    /\ Len(diags) = 1 /\ diags[1].kind = "skipped"
    /\ Len(frames) = 1

(* C20: a simple rule's method is invoked on the wavelet engine exactly    *)
(* when an instance was supplied and has an attribute of that name, and on *)
(* the event classifier otherwise; a derived-state rule is always          *)
(* evaluated by a classifier over the rule's private copy of the table.    *)
C20_Routing ==
    [][(EntryEvaluated /\ call' # NoCall) =>
           LET entry == config[i]
           IN  IF "derived_column" \in DOMAIN entry
               THEN /\ call'.target = "entry_ec"
                    /\ call'.args.column \notin DOMAIN df
                    /\ call'.columns = DOMAIN df \cup {call'.args.column}
               ELSE LET onWd == wd.supplied /\ entry.method \in WdAttributes
                        r == IF onWd THEN WdInvoke(df, wd, entry.method, entry.args)
                             ELSE Invoke(df, entry.method, entry.args)
                    IN  /\ call'.target = IF onWd THEN "wd" ELSE "ec"
                        /\ call'.columns = DOMAIN df
                        /\ r.exc # "None" =>
                               /\ frames' = frames
                               /\ diags'[Len(diags')].exc = r.exc
                        /\ (r.exc = "None" /\ "transition_type" \in DOMAIN entry) =>
                               LET rows == frames'[Len(frames')].rows
                               IN  /\ Len(frames') = Len(frames) + 1
                                   /\ [n \in 1..Len(rows) |-> DetectorRecord(rows[n])]
                                          = r.events.rows]_vars

C20_Witness ==
    /\ pc = "done"
    /\ config = <<OverrevRule, EnergyRule>>
    /\ wd.supplied
    /\ call # NoCall
    /\ call.target = "wd"
    /\ \E a, b \in Range(log.rows) :
           /\ a.activity = <<"overrev">> /\ a.value.kind = "float"
           /\ b.activity = <<"rpm_shift">> /\ b.value.kind = "energy"

(* C18: each rule's contribution depends only on the table and the rule,   *)
(* so evaluating the rules in any interleaving and merging by (timestamp,  *)
(* original rule index) yields exactly the log the sequential dispatcher   *)
(* returns.                                                                *)
C18_ParallelEqualsSequential ==
    pc = "merged" =>
        LET sequential == Dispatch(df, wd, config)
        IN  /\ ~sequential.raised
            /\ sequential.frames = frames
            /\ LogsOf(sequential.frames) = {log}

(* the deepest decomposition the sample count of the called channel supports *)
SupportedLevel == dwt_max_level(NRows(df), wd.wavelet)

(* C21: in denoise_channel and compute_energy the depth used is the        *)
(* minimum of the configured level and the maximum level the sample count  *)
(* supports, the maximum when no level is configured; a configured level   *)
(* above the supported maximum is never passed to the decomposition.       *)
C21_DepthCapped ==
    (pc = "returned" /\ call.method \in {"denoise_channel", "compute_energy"}) =>
        /\ ret.level = IF wd.level = None THEN SupportedLevel
                       ELSE Minimum(wd.level, SupportedLevel)
        /\ Len(ret.coeffs) = ret.level + 1

(* C23: compute_energy returns an energy series of exactly n samples for   *)
(* every sample count n, every detail length and every window size         *)
(* (configured, or 2^level), including windows longer than n: each level's *)
(* upsampled profile and each windowed profile has length n.               *)
C23_EnergyLength ==
    (pc = "returned" /\ call.method = "compute_energy") =>
        /\ ret.exc = "None"
        /\ Len(ret.series) = NRows(df)
        /\ \A j \in DOMAIN ret.profiles :
               ret.profiles[j].upsampled = NRows(df) /\ ret.profiles[j].windowed = NRows(df)

C24_IdempotentSort ==
    pc = "done" => SortValues(log.rows) = {log.rows}

(* a threshold or combined-condition rule of valid shape over channels of  *)
(* the table, with a documented combine mode                               *)
IsSimpleConditionRule(t, entry) ==
    /\ "derived_column" \notin DOMAIN entry
    /\ {"subsystem", "method", "args", "transition_type"} \subseteq DOMAIN entry
    /\ \/ /\ entry.method = "detect_threshold_events"
          /\ {"column", "threshold", "condition"} \subseteq DOMAIN entry.args
          /\ entry.args.column \in DOMAIN t
          /\ entry.args.condition \in Comparators
       \/ /\ entry.method = "detect_combined_condition_events"
          /\ "conditions" \in DOMAIN entry.args
          /\ entry.args.conditions # <<>>
          /\ \A c \in Range(entry.args.conditions) :
                 Len(c) = 3 /\ c[1] \in DOMAIN t /\ c[2] \in Comparators
          /\ ("mode" \in DOMAIN entry.args => entry.args.mode \in {"all", "any"})

(* the condition of a simple rule at row k of the table *)
SimpleConditionAt(t, entry, k) ==
    IF entry.method = "detect_threshold_events"
    THEN Holds(entry.args.condition, t[entry.args.column].data[k], entry.args.threshold)
    ELSE LET cs == entry.args.conditions
             at(j) == Holds(cs[j][2], t[cs[j][1]].data[k], cs[j][3])
         IN  IF "mode" \in DOMAIN entry.args /\ entry.args.mode = "any"
             THEN \E j \in DOMAIN cs : at(j)
             ELSE \A j \in DOMAIN cs : at(j)

(* C25: a condition already true at the first row: a derived-state rule    *)
(* contributes no activation for that initial episode (its first record,   *)
(* if there is one, is a recovery) and its records, in row order, strictly *)
(* alternate between activation and recovery; a simple threshold or        *)
(* combined-condition rule contributes a record at the first row.          *)
C25_FirstRowEpisode ==
    [][(InLoop /\ Len(frames') = Len(frames) + 1 /\ NRows(df) >= 1) =>
          LET entry == config[i]
              rows  == frames'[Len(frames')].rows
          IN  /\ IsDerivedStateRule(df, entry) =>
                    /\ \A n \in 1..Len(rows) :
                           rows[n].transition_type \in {"error_activation", "error_recovery"}
                    /\ \A n \in 1..(Len(rows) - 1) :
                           rows[n].transition_type # rows[n + 1].transition_type
                    /\ (ConditionAt(df, entry, 1) /\ rows # <<>>) =>
                           rows[1].transition_type = "error_recovery"
              /\ (IsSimpleConditionRule(df, entry) /\ SimpleConditionAt(df, entry, 1)) =>
                    /\ rows # <<>>
                    /\ rows[1].timestamp = df[TimeCol].data[1]
                    /\ rows[1].transition_type = entry.transition_type]_vars

C25_Witness ==
    /\ LoopEnded
    /\ config = <<RpmRule, OverrevRule>>
    /\ "rpm" \in DOMAIN df
    /\ df["rpm"].data = <<30, 4, 30>>
    /\ Len(frames) = 2
    /\ Len(frames[1].rows) = 2
    /\ Len(frames[2].rows) = 2
    /\ frames[1].rows[1].transition_type = "error_recovery"
    /\ frames[1].rows[1].timestamp = df[TimeCol].data[2]
    /\ frames[2].rows[1].timestamp = df[TimeCol].data[1]

(* the surviving records of the rules of cfg that are neither skipped nor   *)
(* failed, rule after rule                                                 *)
RECURSIVE Contributions(_, _, _)
Contributions(t, w, cfg) ==
    IF cfg = <<>> THEN <<>>
    ELSE LET r == EvalEntry(t, w, Head(cfg))
         IN  (IF r.outcome = "evaluated" THEN r.events.rows ELSE <<>>)
                 \o Contributions(t, w, Tail(cfg))

(* C26: the returned log holds exactly the surviving records of the rules  *)
(* that were neither skipped nor failed, each as often as its rule emitted *)
(* it and unaltered, in some order; a rule that fails after its detector   *)
(* ran contributes no record.                                              *)
C26_RecordConservation ==
    [][/\ (InLoop /\ pc' = "loop" /\ i' > Len(config)) =>
              ConcatRows(frames') = Contributions(df, wd, config)
       /\ (pc = "loop" /\ pc' = "done") =>
              SameRecords(log'.rows, ConcatRows(frames))
       /\ (InLoop /\ i' = i + 1 /\ Len(diags') = Len(diags) + 1) =>
              frames' = frames]_vars

C26_Witness ==
    /\ pc = "done"
    /\ config = <<OilRule, NoTransitionTypeRule>>
    /\ {"oil_psi", "rpm"} \subseteq DOMAIN df
    /\ df["oil_psi"].data = <<4, 30, 4>>
    /\ df["rpm"].data = <<30, 30, 30>>
    /\ call # NoCall
    /\ call.method = "detect_threshold_events"
    /\ Len(diags) = 1
    /\ diags[1].exc = "KeyError"
    /\ Len(log.rows) = 2
    /\ \A n \in 1..2 : log.rows[n].subsystem = "Lubrication"

====
